---- MODULE Spec2Model ----
(***************************************************************************)
(* State-machine model of src/app.js: an Express application that starts a *)
(* mongoose connection attempt, registers GET /, and listens on PORT.      *)
(*                                                                         *)
(* The top-level script (lines 4-21) runs to completion before any         *)
(* callback of the event loop runs; pc is the position in that script.     *)
(* The promise callbacks of mongoose.connect, the 'listening' / 'error'    *)
(* events of the HTTP server and incoming requests are event-loop steps.   *)
(***************************************************************************)
EXTENDS Integers, Sequences, FiniteSets

VARIABLES
    envMongoUri,  \* process.env.MONGO_URI       (read at line 8)
    envPort,      \* process.env.PORT            (read at line 20)
    portFree,     \* environment: whether the bind requested at line 21 can succeed
    pc,           \* position in the top-level script, "loop" once it has run
    stack,        \* the middleware / route stack of app (lines 5, 15)
    dbUri,        \* const dbUri                 (line 8)
    PORT,         \* const PORT                  (line 20)
    dbState,      \* state of the promise of mongoose.connect (line 9-12)
    connectTarget,\* first argument handed to mongoose.connect
    connectCalls, \* number of calls of mongoose.connect
    listener,     \* state of the HTTP server created by app.listen (line 21)
    listenPort,   \* first argument handed to app.listen
    notices,      \* what console.log / console.error have written, in order
    lastExchange, \* the latest request answered, its response, dbState then
    handled,      \* number of requests answered
    exited,       \* the process has terminated
    exitCode      \* its exit code

vars == <<envMongoUri, envPort, portFree, pc, stack, dbUri, PORT, dbState,
          connectTarget, connectCalls, listener, listenPort, notices,
          lastExchange, handled, exited, exitCode>>

\* ---------------------------------------------------------------- bounds
MaxRequests == 2

\* ------------------------------------------------------- JavaScript values
\* A JavaScript value that is a number or a string.
Num(n) == [t |-> "number", n |-> n, s |-> ""]
Str(s) == [t |-> "string", n |-> 0, s |-> s]
Undefined == [t |-> "undefined", n |-> 0, s |-> ""]

\* An environment variable: unset, or set to a string (possibly empty).
Unset == [set |-> FALSE, val |-> ""]
SetTo(s) == [set |-> TRUE, val |-> s]

\* process.env.X: undefined when unset, the string otherwise
EnvLookup(e) == IF e.set THEN Str(e.val) ELSE Undefined

\* JavaScript truthiness of undefined / number / string
Truthy(v) ==
    CASE v.t = "undefined" -> FALSE
      [] v.t = "number"    -> v.n # 0
      [] v.t = "string"    -> v.s # ""

\* a || b
Or(a, b) == IF Truthy(a) THEN a ELSE b

Digit(d) ==
    CASE d = 0 -> "0" [] d = 1 -> "1" [] d = 2 -> "2" [] d = 3 -> "3"
      [] d = 4 -> "4" [] d = 5 -> "5" [] d = 6 -> "6" [] d = 7 -> "7"
      [] d = 8 -> "8" [] d = 9 -> "9"

RECURSIVE NatToString(_)
NatToString(n) == IF n < 10 THEN Digit(n)
                  ELSE NatToString(n \div 10) \o Digit(n % 10)

\* `${v}` : string conversion inside a template literal
ToString(v) ==
    CASE v.t = "undefined" -> "undefined"
      [] v.t = "number"    -> NatToString(v.n)
      [] v.t = "string"    -> v.s

\* ------------------------------------------------------------ constants
DefaultDbUri == "mongodb://localhost:27017/mydb"
DefaultPort == 3000
HelloBody == "Hello, World!"

\* ----------------------------------------------------- environment inputs
MongoUriValues == {Unset, SetTo(""), SetTo("mongodb://mongo:27017/mydb"),
                   SetTo("mongodb://bad-host:27017/mydb")}
PortValues == {Unset, SetTo(""), SetTo("4000"), SetTo("3000"), SetTo("0")}
ConnectErrors == {"ECONNREFUSED", "ENOTFOUND"}

Methods == {"GET", "POST"}
Paths == {"/", "/other"}
\* request payload as express.json() sees it: no body, a JSON content type
\* with a well-formed body, or a JSON content type with a malformed body
Bodies == {"none", "json", "malformedJson"}
Requests == [method : Methods, path : Paths, body : Bodies]

NoExchange == [req |-> [method |-> "", path |-> "", body |-> ""],
               res |-> [status |-> 0, body |-> ""],
               db |-> ""]

\* ------------------------------------------------------ request dispatch
JsonLayer == [kind |-> "json", method |-> "", path |-> "", body |-> ""]
RouteLayer(m, p, b) == [kind |-> "route", method |-> m, path |-> p, body |-> b]

\* express.json(): passes the request on unless a JSON body fails to parse
JsonRejects(req) == req.body = "malformedJson"

\* res.send(body) of a route handler
Send(body) == [status |-> 200, body |-> body]

\* the framework's answers when a layer fails / no layer matches
BadRequest == [status |-> 400, body |-> "Bad Request"]
NotFound == [status |-> 404, body |-> "Not Found"]

\* walk the stack from layer i on, as the router does
RECURSIVE Dispatch(_, _, _)
Dispatch(st, i, req) ==
    IF i > Len(st) THEN NotFound
    ELSE IF st[i].kind = "json"
         THEN IF JsonRejects(req) THEN BadRequest ELSE Dispatch(st, i + 1, req)
         ELSE IF st[i].method = req.method /\ st[i].path = req.path
              THEN Send(st[i].body)
              ELSE Dispatch(st, i + 1, req)

Respond(st, req) == Dispatch(st, 1, req)

\* ---------------------------------------------------------------- notices
\* A notice is the fixed text of the message and the value printed after it.
ConnectedNotice == [stream |-> "log", text |-> "Connected to MongoDB", detail |-> ""]
ConnectErrorNotice(err) ==
    [stream |-> "error", text |-> "Could not connect to MongoDB:", detail |-> err]
\* variant: the notice names the default port
ListeningNoticeDefault(port) ==
    [stream |-> "log", text |-> "Server running on port ", detail |-> NatToString(DefaultPort)]
ListeningNotice(port) ==
    [stream |-> "log", text |-> "Server running on port ", detail |-> ToString(port)]

\* ------------------------------------------------------------------- Init
Init ==
    /\ envMongoUri \in MongoUriValues
    /\ envPort \in PortValues
    /\ portFree \in BOOLEAN
    /\ pc = "use"
    /\ stack = <<>>
    /\ dbUri = Undefined
    /\ PORT = Undefined
    /\ dbState = "notStarted"
    /\ connectTarget = Undefined
    /\ connectCalls = 0
    /\ listener = "idle"
    /\ listenPort = Undefined
    /\ notices = <<>>
    /\ lastExchange = NoExchange
    /\ handled = 0
    /\ exited = FALSE
    /\ exitCode = 0

\* ------------------------------------------------- the top-level script
\* line 4-5: const app = express(); app.use(express.json());
UseJson ==
    /\ pc = "use" /\ ~exited
    /\ stack' = Append(stack, JsonLayer)
    /\ pc' = "dbUri"
    /\ UNCHANGED <<envMongoUri, envPort, portFree, dbUri, PORT, dbState,
                   connectTarget, connectCalls, listener, listenPort, notices,
                   lastExchange, handled, exited, exitCode>>

\* a ?? b
Nullish(a, b) == IF a.t = "undefined" THEN b ELSE a

\* variant: the environment variable is not consulted
ResolveDbUriIgnoresEnv ==
    /\ pc = "dbUri" /\ ~exited
    /\ dbUri' = Str(DefaultDbUri)
    /\ pc' = "connect"
    /\ UNCHANGED <<envMongoUri, envPort, portFree, stack, PORT, dbState,
                   connectTarget, connectCalls, listener, listenPort, notices,
                   lastExchange, handled, exited, exitCode>>

\* line 8: const dbUri = process.env.MONGO_URI || "mongodb://localhost:27017/mydb";
ResolveDbUri ==
    /\ pc = "dbUri" /\ ~exited
    /\ dbUri' = Or(EnvLookup(envMongoUri), Str(DefaultDbUri))
    /\ pc' = "connect"
    /\ UNCHANGED <<envMongoUri, envPort, portFree, stack, PORT, dbState,
                   connectTarget, connectCalls, listener, listenPort, notices,
                   lastExchange, handled, exited, exitCode>>

\* variant: the connect call is put off until after the listener is up
ConnectDeferred ==
    /\ pc = "connect" /\ ~exited
    /\ pc' = "route"
    /\ UNCHANGED <<envMongoUri, envPort, portFree, stack, dbUri, PORT, dbState,
                   connectTarget, connectCalls, listener, listenPort, notices,
                   lastExchange, handled, exited, exitCode>>

\* line 9-12: mongoose.connect(dbUri, ...).then(...).catch(...)
\* starts the attempt and returns; the callbacks run from the event loop
Connect ==
    /\ pc = "connect" /\ ~exited
    /\ connectTarget' = dbUri
    /\ connectCalls' = connectCalls + 1
    /\ dbState' = "connecting"
    /\ pc' = "route"
    /\ UNCHANGED <<envMongoUri, envPort, portFree, stack, dbUri, PORT,
                   listener, listenPort, notices, lastExchange, handled,
                   exited, exitCode>>

\* line 15-17: app.get("/", (req, res) => { res.send("Hello, World!"); });
RegisterRoute ==
    /\ pc = "route" /\ ~exited
    /\ stack' = Append(stack, RouteLayer("GET", "/", HelloBody))
    /\ pc' = "port"
    /\ UNCHANGED <<envMongoUri, envPort, portFree, dbUri, PORT, dbState,
                   connectTarget, connectCalls, listener, listenPort, notices,
                   lastExchange, handled, exited, exitCode>>

\* variant: process.env.PORT ?? 3000, which keeps an empty string
ResolvePortNullish ==
    /\ pc = "port" /\ ~exited
    /\ PORT' = Nullish(EnvLookup(envPort), Num(DefaultPort))
    /\ pc' = "listen"
    /\ UNCHANGED <<envMongoUri, envPort, portFree, stack, dbUri, dbState,
                   connectTarget, connectCalls, listener, listenPort, notices,
                   lastExchange, handled, exited, exitCode>>

\* line 20: const PORT = process.env.PORT || 3000;
ResolvePort ==
    /\ pc = "port" /\ ~exited
    /\ PORT' = Or(EnvLookup(envPort), Num(DefaultPort))
    /\ pc' = "listen"
    /\ UNCHANGED <<envMongoUri, envPort, portFree, stack, dbUri, dbState,
                   connectTarget, connectCalls, listener, listenPort, notices,
                   lastExchange, handled, exited, exitCode>>

\* line 21: app.listen(PORT, callback) -- asks for the bind and returns
Listen ==
    /\ pc = "listen" /\ ~exited
    /\ listenPort' = PORT
    /\ listener' = "binding"
    /\ pc' = "loop"
    /\ UNCHANGED <<envMongoUri, envPort, portFree, stack, dbUri, PORT, dbState,
                   connectTarget, connectCalls, notices, lastExchange, handled,
                   exited, exitCode>>

\* ------------------------------------------------------ event-loop steps
\* line 11: .then(() => console.log("Connected to MongoDB"))
ConnectSucceed ==
    /\ pc = "loop" /\ ~exited
    /\ dbState = "connecting"
    /\ dbState' = "connected"
    /\ notices' = Append(notices, ConnectedNotice)
    /\ UNCHANGED <<envMongoUri, envPort, portFree, pc, stack, dbUri, PORT,
                   connectTarget, connectCalls, listener, listenPort,
                   lastExchange, handled, exited, exitCode>>

\* variant: the catch handler ends the process
ConnectFailExits(err) ==
    /\ pc = "loop" /\ ~exited
    /\ dbState = "connecting"
    /\ dbState' = "failed"
    /\ notices' = Append(notices, ConnectErrorNotice(err))
    /\ exited' = TRUE
    /\ exitCode' = 1
    /\ UNCHANGED <<envMongoUri, envPort, portFree, pc, stack, dbUri, PORT,
                   connectTarget, connectCalls, listener, listenPort,
                   lastExchange, handled>>

\* variant: the catch handler calls mongoose.connect again
ConnectFailRetries(err) ==
    /\ pc = "loop" /\ ~exited
    /\ dbState = "connecting"
    /\ dbState' = "connecting"
    /\ connectCalls' = connectCalls + 1
    /\ notices' = Append(notices, ConnectErrorNotice(err))
    /\ UNCHANGED <<envMongoUri, envPort, portFree, pc, stack, dbUri, PORT,
                   connectTarget, listener, listenPort,
                   lastExchange, handled, exited, exitCode>>

\* line 12: .catch((err) => console.error("Could not connect to MongoDB:", err))
ConnectFail(err) ==
    /\ pc = "loop" /\ ~exited
    /\ dbState = "connecting"
    /\ dbState' = "failed"
    /\ notices' = Append(notices, ConnectErrorNotice(err))
    /\ UNCHANGED <<envMongoUri, envPort, portFree, pc, stack, dbUri, PORT,
                   connectTarget, connectCalls, listener, listenPort,
                   lastExchange, handled, exited, exitCode>>

\* variant: app.listen is called from the then handler of the connect
BindSucceedAfterConnect ==
    /\ pc = "loop" /\ ~exited
    /\ dbState = "connected"
    /\ listener = "binding" /\ portFree
    /\ listener' = "listening"
    /\ notices' = Append(notices, ListeningNotice(PORT))
    /\ UNCHANGED <<envMongoUri, envPort, portFree, pc, stack, dbUri, PORT,
                   dbState, connectTarget, connectCalls, listenPort,
                   lastExchange, handled, exited, exitCode>>

\* line 21, the callback: () => console.log(`Server running on port ${PORT}`)
\* runs on the server's 'listening' event
BindSucceed ==
    /\ pc = "loop" /\ ~exited
    /\ listener = "binding" /\ portFree
    /\ listener' = "listening"
    /\ notices' = Append(notices, ListeningNotice(PORT))
    /\ UNCHANGED <<envMongoUri, envPort, portFree, pc, stack, dbUri, PORT,
                   dbState, connectTarget, connectCalls, listenPort,
                   lastExchange, handled, exited, exitCode>>

\* variant: the callback is also run when the bind fails
BindFailCallsBack ==
    /\ pc = "loop" /\ ~exited
    /\ listener = "binding" /\ ~portFree
    /\ listener' = "failed"
    /\ notices' = Append(notices, ListeningNotice(PORT))
    /\ UNCHANGED <<envMongoUri, envPort, portFree, pc, stack, dbUri, PORT,
                   dbState, connectTarget, connectCalls, listenPort,
                   lastExchange, handled, exited, exitCode>>

\* line 21: no 'error' handler is registered on the server, so the 'error'
\* event of a failed bind is an uncaught exception and the process exits 1
BindFail ==
    /\ pc = "loop" /\ ~exited
    /\ listener = "binding" /\ ~portFree
    /\ listener' = "failed"
    /\ exited' = TRUE
    /\ exitCode' = 1
    /\ UNCHANGED <<envMongoUri, envPort, portFree, pc, stack, dbUri, PORT,
                   dbState, connectTarget, connectCalls, listenPort, notices,
                   lastExchange, handled>>

\* variant: the handler answers 503 until the database is connected
HandleRequestDbGated(req) ==
    /\ pc = "loop" /\ ~exited
    /\ listener = "listening"
    /\ handled < MaxRequests
    /\ handled' = handled + 1
    /\ lastExchange' =
          [req |-> req,
           res |-> IF dbState = "connected" THEN Respond(stack, req)
                   ELSE [status |-> 503, body |-> "Service Unavailable"],
           db |-> dbState]
    /\ UNCHANGED <<envMongoUri, envPort, portFree, pc, stack, dbUri, PORT,
                   dbState, connectTarget, connectCalls, listener, listenPort,
                   notices, exited, exitCode>>

\* variant: the handler registers a route on every request
HandleRequestRegisters(req) ==
    /\ pc = "loop" /\ ~exited
    /\ listener = "listening"
    /\ handled < MaxRequests
    /\ handled' = handled + 1
    /\ lastExchange' = [req |-> req, res |-> Respond(stack, req), db |-> dbState]
    /\ stack' = Append(stack, RouteLayer("GET", "/other", HelloBody))
    /\ UNCHANGED <<envMongoUri, envPort, portFree, pc, dbUri, PORT,
                   dbState, connectTarget, connectCalls, listener, listenPort,
                   notices, exited, exitCode>>

\* an incoming request runs through the stack (line 5, then line 15-17)
HandleRequest(req) ==
    /\ pc = "loop" /\ ~exited
    /\ listener = "listening"
    /\ handled < MaxRequests
    /\ handled' = handled + 1
    /\ lastExchange' = [req |-> req, res |-> Respond(stack, req), db |-> dbState]
    /\ UNCHANGED <<envMongoUri, envPort, portFree, pc, stack, dbUri, PORT,
                   dbState, connectTarget, connectCalls, listener, listenPort,
                   notices, exited, exitCode>>

Next ==
    \/ UseJson
    \/ ResolveDbUri
    \/ Connect
    \/ RegisterRoute
    \/ ResolvePort
    \/ Listen
    \/ ConnectSucceed
    \/ \E err \in ConnectErrors : ConnectFail(err)
    \/ BindSucceed
    \/ BindFail
    \/ \E req \in Requests : HandleRequest(req)

Spec == Init /\ [][Next]_vars

\* The script runs to its end and the server's bind completes one way or the
\* other; nothing obliges the connect attempt to resolve or a client to call.
FairSpec ==
    /\ Spec
    /\ WF_vars(UseJson) /\ WF_vars(ResolveDbUri) /\ WF_vars(Connect)
    /\ WF_vars(RegisterRoute) /\ WF_vars(ResolvePort) /\ WF_vars(Listen)
    /\ WF_vars(BindSucceed) /\ WF_vars(BindFail)

Serving == listener = "listening" /\ ~exited

TypeOK ==
    /\ pc \in {"use", "dbUri", "connect", "route", "port", "listen", "loop"}
    /\ dbState \in {"notStarted", "connecting", "connected", "failed"}
    /\ listener \in {"idle", "binding", "listening", "failed"}
    /\ handled \in 0..MaxRequests
    /\ Len(notices) <= 2

\* ------------------------------------------------------------ properties
IsListeningNotice(n) == n.stream = "log" /\ n.text = "Server running on port "
IsConnectedNotice(n) == n = ConnectedNotice
IsConnectErrorNotice(n) == n.stream = "error" /\ n.text = "Could not connect to MongoDB:"

Count(P(_)) == Cardinality({i \in 1..Len(notices) : P(notices[i])})

\* what `process.env.X || dflt` must come to, stated on the environment
Resolved(e, dflt) == IF ~e.set \/ e.val = "" THEN dflt ELSE Str(e.val)

\* C1: whenever the bind can succeed the process comes to serve on the
\* resolved port, however the connect attempt resolves (also if it never
\* does); the bind's completion is enabled whatever the connect state is.
C1_ListenerNotGated ==
    /\ portFree ~> (Serving /\ listenPort = PORT)
    /\ [](pc = "loop" /\ listener = "binding" /\ portFree => ENABLED BindSucceed)

C1_Witness == Serving /\ dbState = "connecting" /\ handled > 0

C3_ConnectFailureNotFatal ==
    /\ [][(dbState = "connecting" /\ dbState' = "failed") =>
            ((\E err \in ConnectErrors :
                  notices' = Append(notices, ConnectErrorNotice(err)))
             /\ ~exited'
             /\ UNCHANGED <<listener, listenPort, exited, exitCode, pc, stack>>)]_vars
    /\ []((dbState = "failed" /\ portFree) => ~exited)
    /\ (dbState = "failed" /\ portFree) ~> Serving

C3_Witness ==
    /\ dbState = "failed" /\ Serving /\ handled > 0
    /\ Count(IsConnectErrorNotice) = 1

\* C4: when the bind fails the process is exited with a non-zero code, and
\* in a run whose bind cannot succeed no listening notice is ever written,
\* whatever the connect attempt has come to.
C4_BindFailureFatal ==
    /\ listener = "failed" => (exited /\ exitCode # 0)
    /\ ~portFree => (Count(IsListeningNotice) = 0 /\ ~Serving)
    /\ exited => listener = "failed"

C4_Witness == listener = "failed" /\ exited /\ dbState = "connected"

\* C5: once app.listen has been called, the port it was given is 3000 when
\* PORT is unset or empty and the value of PORT otherwise.
C5_PortResolution ==
    listener # "idle" =>
        /\ listenPort = Resolved(envPort, Num(3000))
        /\ (envPort.set /\ envPort.val # "") => listenPort.t = "string"

C5_Witness == Serving /\ envPort = SetTo("") /\ listenPort = Num(3000)

\* C6: once mongoose.connect has been called, the URI it was given is
\* mongodb://localhost:27017/mydb when MONGO_URI is unset or empty and the
\* value of MONGO_URI otherwise.
C6_DbUriResolution ==
    connectCalls > 0 =>
        connectTarget = Resolved(envMongoUri, Str("mongodb://localhost:27017/mydb"))

C6_Witness ==
    /\ connectCalls = 1
    /\ envMongoUri = SetTo("mongodb://bad-host:27017/mydb")
    /\ connectTarget = Str("mongodb://bad-host:27017/mydb")

\* C7: the connect attempt is started before the bind is asked for and before
\* any request is answered: no state has the listener started, or a request
\* answered, with the connect attempt not started.
C7_ConnectBeforeServe ==
    /\ (listener # "idle" \/ handled > 0) =>
          (dbState # "notStarted" /\ connectCalls = 1)
    /\ [][(listener = "idle" /\ listener' # "idle") => dbState # "notStarted"]_vars

C7_Witness == Serving /\ handled > 0 /\ dbState = "connecting"

\* C8: a listening notice is written only by a successful bind, at most once,
\* and names the port given to app.listen; the listener becomes listening
\* only from binding on a free port, and once listening stays listening.
C8_ListeningNotice ==
    /\ [](Count(IsListeningNotice) <= 1)
    /\ [](Count(IsListeningNotice) = 1 <=> listener = "listening")
    /\ [](\A i \in 1..Len(notices) :
            IsListeningNotice(notices[i]) =>
               /\ notices[i].detail = ToString(listenPort)
               /\ listenPort = PORT
               /\ portFree)
    /\ [][(listener # "listening" /\ listener' = "listening") =>
            (listener = "binding" /\ portFree)]_vars
    /\ [][listener = "listening" => listener' = "listening"]_vars

C8_Witness ==
    /\ Serving /\ envPort = SetTo("4000")
    /\ \E i \in 1..Len(notices) :
          IsListeningNotice(notices[i]) /\ notices[i].detail = "4000"

\* C9: mongoose.connect is called at most once and never again after a
\* failure; at most one outcome notice is written, the success notice only
\* when the attempt succeeded and the error notice only when it failed.
C9_ConnectOnce ==
    /\ [](connectCalls <= 1)
    /\ [](Count(IsConnectedNotice) + Count(IsConnectErrorNotice) <= 1)
    /\ [](Count(IsConnectedNotice) = 1 <=> dbState = "connected")
    /\ [](Count(IsConnectErrorNotice) = 1 <=> dbState = "failed")
    /\ [][(dbState \in {"failed", "connected"}) =>
            (dbState' = dbState /\ connectCalls' = connectCalls)]_vars

C9_Witness ==
    /\ dbState = "failed" /\ connectCalls = 1 /\ handled = MaxRequests
    /\ Count(IsConnectErrorNotice) = 1 /\ Count(IsConnectedNotice) = 0

\* C10: answering a request changes nothing but the record of the exchange,
\* and the resolution of the connect attempt changes neither the stack nor
\* the answer to any request.
C10_Frame ==
    /\ [][handled' # handled =>
            UNCHANGED <<envMongoUri, envPort, pc, stack, dbUri, PORT, dbState,
                        connectTarget, connectCalls, listener, listenPort,
                        notices, exited, exitCode>>]_vars
    /\ [][(dbState = "connecting" /\ dbState' # dbState) =>
            (UNCHANGED <<stack, lastExchange, handled>>
             /\ (\A req \in Requests : Respond(stack', req) = Respond(stack, req)))]_vars

C10_Witness == handled = MaxRequests /\ dbState = "connected" /\ Serving

====
